---------------------------- MODULE Spec2Model ----------------------------
(***************************************************************************)
(* A model of src/modules/krita/producer_krita.c: the "krita" producer,    *)
(* which wraps an inner producer, optionally confines the inner producer's *)
(* read position to [start_frame, end_frame] before every frame request,   *)
(* and pushes an audio callback on every real-audio frame that rescales    *)
(* the audio frequency by |speed| and reverses the samples when speed < 0. *)
(*                                                                         *)
(* The framework functions the file calls (mlt_frame_*, mlt_audio_*,       *)
(* mlt_producer_*, mlt_service_get_frame, mlt_factory_producer) are not in *)
(* src/; they are modelled from their contracts in the specification's     *)
(* section 6, with every outcome they may report drawn nondeterministically *)
(* by the action that calls them.                                          *)
(*                                                                         *)
(* The double-valued "speed" property is held in halves: speed = 4 is 2.0, *)
(* speed = -2 is -1.0, speed = 1 is 0.5 (all exactly representable).       *)
(***************************************************************************)
EXTENDS Integers, Sequences, FiniteSets

\* ------------------------------------------------------------------ bounds
\* Largest value given to the start_frame / end_frame properties.
MaxFrame == 3
\* Largest number of sample groups in an audio buffer.
MaxSamples == 3
\* Largest magnitude of an argument of restrict_range in SpecRestrict.
MaxIndex == 25

\* Largest inner position the model lets a seek or an advance reach.
MaxPos == MaxFrame + 2

Positions == 0..MaxPos
FrameValues == (-1)..MaxFrame
\* speed property values, in halves: -1.0, -0.5, 0.0, 0.5, 2.0
Speeds == {-2, -1, 0, 1, 4}
Statuses == {0, 1}
Frequencies == {7, 48000}
Handles == {"self", "other"}

VARIABLES
    instance,       \* what producer_krita_init returned: "unborn" before the
                    \* call, "NULL", "live", and "closed" after producer_close
    log,            \* the allocations and releases made so far, in order
    speed,          \* property "speed" (in halves)
    start_frame,    \* property "start_frame"
    end_frame,      \* property "end_frame"
    limit_enabled,  \* property "limit_enabled" (an int, read as a bool)
    position,       \* property "_position" of pdata->producer_internal
    frame,          \* the frame last handed to the caller, until its audio
                    \* is requested
    last            \* what the last call did and returned

vars == <<instance, log, speed, start_frame, end_frame, limit_enabled,
          position, frame, last>>

props == <<speed, start_frame, end_frame, limit_enabled>>

\* ----------------------------------------------------------- C arithmetic
Abs(x) == IF x < 0 THEN -x ELSE x

\* C's % on ints: the remainder has the sign of the dividend.
CRem(a, b) ==
    IF b = 0 THEN 0
    ELSE IF a >= 0 THEN a % Abs(b) ELSE -((-a) % Abs(b))

\* The MAX macro of the framework's headers.
MAX(x, y) == IF x > y THEN x ELSE y

Reverse(s) == [i \in 1..Len(s) |-> s[Len(s) + 1 - i]]

\* -------------------------------------------------- restrict_range (40-46)
restrict_range_no_clamp(index, min, max) ==
    LET span == max - min
    IN  CRem(index - min, span + 1) + min

restrict_range_clamp(index, min, max) ==
    IF index > max THEN max ELSE MAX(index - min, 0) + min

restrict_range_off_by_one(index, min, max) ==
    LET span == max - min
    IN  CRem(MAX(index - min, 0), span) + min

restrict_range(index, min, max) ==
    LET span == max - min
    IN  CRem(MAX(index - min, 0), span + 1) + min

\* -------------------------------------------------- is_valid_range (48-54)
is_valid_range(frame_start, frame_end) ==
    LET NON_NEGATIVE == frame_start >= 0 /\ frame_end >= 0
        NON_INVERTED == frame_end > frame_start
    IN  NON_NEGATIVE /\ NON_INVERTED


\* --------------------------------------------------------------- framework
\* mlt_frame_push_audio / mlt_frame_pop_audio: the frame's audio stack, its
\* top at the end of the sequence.
mlt_frame_push_audio(stack, item) == Append(stack, item)

StackTop(stack) == IF stack = <<>> THEN "NULL" ELSE stack[Len(stack)]

StackRest(stack) ==
    IF stack = <<>> THEN <<>> ELSE SubSeq(stack, 1, Len(stack) - 1)

\* mlt_audio_reverse: the sample groups in reverse order, each group kept
\* whole.
mlt_audio_reverse(audio) == [audio EXCEPT !.data = Reverse(@)]

\* mlt_properties_get_double(props, "speed") of a producer handle.
ReadSpeedAtAttach(ctx, producer) ==
    IF producer = "self" THEN ctx.attachSpeed
    ELSE IF producer \in Handles THEN ctx.speeds[producer] ELSE 0

ReadSpeed(ctx, producer) ==
    IF producer \in Handles THEN ctx.speeds[producer] ELSE 0

\* ------------------------------------------ producer_get_audio (56-89)
\* Lines 81-84: audio.frequency = (double) audio.frequency * fabs(SPEED),
\* converted back to int (truncated), then the reversal when SPEED < 0.
apply_speed_no_fabs(audio, SPEED) ==
    LET scaled == [audio EXCEPT !.frequency = (@ * SPEED) \div 2]
    IN  IF SPEED < 0 THEN mlt_audio_reverse(scaled) ELSE scaled

apply_speed(audio, SPEED) ==
    LET scaled == [audio EXCEPT !.frequency = (@ * Abs(SPEED)) \div 2]
    IN  IF SPEED < 0 THEN mlt_audio_reverse(scaled) ELSE scaled

RECURSIVE mlt_frame_get_audio(_, _), producer_get_audio(_, _)

\* mlt_frame_get_audio: pops the top callback and runs it; with nothing left
\* the frame's own content is returned. ctx.raw and ctx.err are the buffer
\* and the status the bottom of the chain delivers. "trace" lists, in order,
\* the steps entered and the transforms applied.
mlt_frame_get_audio(stack, ctx) ==
    LET get_audio == StackTop(stack)
        rest == StackRest(stack)
    IN  CASE get_audio = "producer_get_audio" -> producer_get_audio(rest, ctx)
          [] get_audio \in {"inner_get_audio", "NULL"} ->
                [audio |-> ctx.raw, error |-> ctx.err, stack |-> rest,
                 trace |-> << <<"raw", get_audio>> >>]
          [] OTHER ->   \* a handle called as a function
                [audio |-> ctx.raw, error |-> ctx.err, stack |-> rest,
                 trace |-> << <<"crash", get_audio>> >>]

\* "stack" is the frame's audio stack when the callback starts, its own
\* entry already popped by mlt_frame_get_audio.
producer_get_audio(stack, ctx) ==
    LET producer == StackTop(stack)
        rest == StackRest(stack)
        up == mlt_frame_get_audio(rest, ctx)
        SPEED == ReadSpeed(ctx, producer)
    IN  [audio |-> apply_speed(up.audio, SPEED),
         error |-> up.error,
         stack |-> up.stack,
         trace |-> << <<"enter", producer>> >> \o up.trace
                     \o << <<"apply", producer>> >>,
         \* what this step was given by the rest of the chain
         upaudio |-> up.audio, uperror |-> up.error, upchain |-> rest,
         SPEED |-> SPEED]

\* ------------------------------------------ producer_get_frame (91-115)
IS_RANGE_LIMITED == limit_enabled # 0

\* Lines 99-105: the position the inner producer is left at before it is
\* asked for the frame.
\* "restricted" records whether restrict_range was evaluated.
remap_position_always(POSITION) ==
    IF is_valid_range(start_frame, end_frame)
    THEN [position |-> restrict_range(POSITION, start_frame, end_frame),
          restricted |-> TRUE]
    ELSE [position |-> POSITION, restricted |-> FALSE]

remap_position(POSITION) ==
    IF IS_RANGE_LIMITED /\ is_valid_range(start_frame, end_frame)
    THEN [position |-> restrict_range(POSITION, start_frame, end_frame),
          restricted |-> TRUE]
    ELSE [position |-> POSITION, restricted |-> FALSE]

\* Lines 109-112: the producer handle, then the callback, pushed on the
\* audio stack of a frame that is not a test-audio frame.
attach_audio_always(f, producer) ==
    [f EXCEPT !.stack = mlt_frame_push_audio(
                            mlt_frame_push_audio(@, producer),
                            "producer_get_audio")]

attach_audio_swapped(f, producer) ==
    IF ~f.test_audio
    THEN [f EXCEPT !.stack = mlt_frame_push_audio(
                                 mlt_frame_push_audio(@, "producer_get_audio"),
                                 producer)]
    ELSE f

attach_audio(f, producer) ==
    IF ~f.test_audio
    THEN [f EXCEPT !.stack = mlt_frame_push_audio(
                                 mlt_frame_push_audio(@, producer),
                                 "producer_get_audio")]
    ELSE f

\* The frames the inner producer may return: a test-audio (placeholder) frame
\* or a real one, with the audio stack the inner producer left on it. The
\* inner producer may itself be an instance of this producer ("other"), which
\* then left its own handle and callback on a real-audio frame.
InnerStacks ==
    {<<>>, <<"inner_get_audio">>,
     <<"inner_get_audio", "other", "producer_get_audio">>}

InnerFrames ==
    {f \in [test_audio : BOOLEAN, stack : InnerStacks] :
        f.test_audio => "other" \notin {f.stack[i] : i \in 1..Len(f.stack)}}

NoFrame == [state |-> "none"]

\* retval and inner_frame are what mlt_service_get_frame reports and returns;
\* advance is how far the inner producer moves its position while producing
\* (its speed is set to 1.0 on line 168). The index argument is handed to the
\* inner producer untouched and is left out. "pre", "asked", "start", "end",
\* "limited" and "calls" in last record the call for the properties below:
\* "asked" is _position at the call of mlt_service_get_frame.
producer_get_frame(retval, inner_frame, advance) ==
    LET POSITION == position
        remap == remap_position(POSITION)
        asked == remap.position
        f == attach_audio(inner_frame, "self")
    IN  /\ instance = "live"
        /\ asked + advance <= MaxPos
        /\ position' = asked + advance
        /\ frame' = [state |-> "pending", test_audio |-> f.test_audio,
                     stack |-> f.stack, inner |-> inner_frame.stack,
                     attachSpeed |-> speed]
        /\ last' = [op |-> "get_frame", pre |-> POSITION, asked |-> asked,
                    start |-> start_frame, end |-> end_frame,
                    limited |-> IS_RANGE_LIMITED,
                    restricted |-> remap.restricted, inner_retval |-> retval,
                    calls |-> 1, retval |-> retval]
        /\ UNCHANGED <<instance, log, props>>

\* ------------------------------------------------ producer_seek (117-124)
\* status is what mlt_producer_seek reports; the inner producer moves to the
\* position when it reports success.
producer_seek_swallow(pos, status) ==
    /\ instance = "live"
    /\ position' = IF status = 0 THEN pos ELSE position
    /\ last' = [op |-> "seek", inner_retval |-> status, calls |-> 1,
                retval |-> 0]
    /\ UNCHANGED <<instance, log, props, frame>>

producer_seek(pos, status) ==
    /\ instance = "live"
    /\ position' = IF status = 0 THEN pos ELSE position
    /\ last' = [op |-> "seek", inner_retval |-> status, calls |-> 1,
                retval |-> status]
    /\ UNCHANGED <<instance, log, props, frame>>

\* ------------------------------------------------- the caller asks for audio
\* The caller's mlt_frame_get_audio on the pending frame. raw and err are the
\* buffer and status at the bottom of the chain; other_speed is the speed the
\* nested instance holds at that moment.
Ramp(n) == [i \in 1..n |-> i]

Buffers ==
    {[data |-> Ramp(n), frequency |-> fq, format |-> "s16",
      channels |-> 2, samples |-> n] : n \in 0..MaxSamples, fq \in Frequencies}

get_audio(raw, err, other_speed) ==
    LET ctx == [raw |-> raw, err |-> err,
                speeds |-> [h \in Handles |->
                               IF h = "self" THEN speed ELSE other_speed],
                attachSpeed |-> frame.attachSpeed]
        res == mlt_frame_get_audio(frame.stack, ctx)
    IN  /\ instance = "live"
        /\ frame.state = "pending"
        /\ last' = [op |-> "get_audio", res |-> res, raw |-> raw, err |-> err,
                    test_audio |-> frame.test_audio, inner |-> frame.inner,
                    chain |-> frame.stack,
                    changed |-> (speed # frame.attachSpeed),
                    speed |-> speed, retval |-> res.error]
        /\ frame' = NoFrame
        /\ UNCHANGED <<instance, log, props, position>>

\* ------------------------------------------------------------- properties
set_speed(v) ==
    /\ instance = "live"
    /\ speed' = v
    /\ last' = [op |-> "set"]
    /\ UNCHANGED <<instance, log, start_frame, end_frame, limit_enabled,
                   position, frame>>

set_start_frame(v) ==
    /\ instance = "live"
    /\ start_frame' = v
    /\ last' = [op |-> "set"]
    /\ UNCHANGED <<instance, log, speed, end_frame, limit_enabled,
                   position, frame>>

set_end_frame(v) ==
    /\ instance = "live"
    /\ end_frame' = v
    /\ last' = [op |-> "set"]
    /\ UNCHANGED <<instance, log, speed, start_frame, limit_enabled,
                   position, frame>>

set_limit_enabled(v) ==
    /\ instance = "live"
    /\ limit_enabled' = v
    /\ last' = [op |-> "set"]
    /\ UNCHANGED <<instance, log, speed, start_frame, end_frame,
                   position, frame>>

\* ------------------------------------------------------------- lifecycle
\* mlt_producer_close and free do nothing on a NULL pointer.
mlt_producer_close(lg, handle, event) ==
    IF handle = "NULL" THEN lg ELSE Append(lg, event)

free(lg, pointer, event) ==
    IF pointer = "NULL" THEN lg ELSE Append(lg, event)

\* Lines 126-138. producer->child is the pdata of a live instance, and its
\* producer_internal the inner producer made by producer_krita_init.
producer_close_leak ==
    LET pdata == "pdata"
        lg1 == IF pdata # "NULL" THEN free(log, pdata, "free_pdata") ELSE log
        lg2 == mlt_producer_close(lg1, "producer", "close_producer")
    IN  /\ instance = "live"
        /\ log' = free(lg2, "producer", "free_producer")
        /\ instance' = "closed"
        /\ last' = [op |-> "close"]
        /\ UNCHANGED <<props, position, frame>>

producer_close ==
    LET pdata == "pdata"
        producer_internal == "inner"
        lg1 == IF pdata # "NULL"
               THEN free(mlt_producer_close(log, producer_internal,
                                            "close_inner"),
                         pdata, "free_pdata")
               ELSE log
        lg2 == mlt_producer_close(lg1, "producer", "close_producer")
    IN  /\ instance = "live"
        /\ log' = free(lg2, "producer", "free_producer")
        /\ instance' = "closed"
        /\ last' = [op |-> "close"]
        /\ UNCHANGED <<props, position, frame>>

\* Lines 142-189. arg is whether a resource was given; new_ok, calloc_ok and
\* factory_ok are whether mlt_producer_new, calloc and mlt_factory_producer
\* return something.
producer_krita_init(arg, new_ok, calloc_ok, factory_ok) ==
    LET producer == IF new_ok THEN "producer" ELSE "NULL"
        pdata == IF calloc_ok THEN "pdata" ELSE "NULL"
        lg0 == (IF new_ok THEN <<"new_producer">> ELSE <<>>)
                 \o (IF calloc_ok THEN <<"calloc_pdata">> ELSE <<>>)
        setup == arg /\ producer # "NULL" /\ pdata # "NULL"
        producer_internal ==
            IF setup /\ factory_ok THEN "inner" ELSE "NULL"
        lg1 == IF producer_internal # "NULL"
               THEN Append(lg0, "new_inner") ELSE lg0
        INVALID_CONTEXT ==
            producer = "NULL" \/ pdata = "NULL" \/ producer_internal = "NULL"
        lg2 == IF INVALID_CONTEXT /\ pdata # "NULL"
               THEN free(mlt_producer_close(lg1, producer_internal,
                                            "close_inner"),
                         pdata, "free_pdata")
               ELSE lg1
        lg3 == IF INVALID_CONTEXT /\ producer # "NULL"
               THEN free(mlt_producer_close(lg2, producer, "close_producer"),
                         producer, "free_producer")
               ELSE lg2
    IN  /\ instance = "unborn"
        /\ log' = lg3
        /\ instance' = IF INVALID_CONTEXT THEN "NULL" ELSE "live"
        /\ last' = [op |-> "init", arg |-> arg, factory_ok |-> factory_ok]
        /\ UNCHANGED <<props, position, frame>>

\* ---------------------------------------------------------- specifications
\* Before producer_krita_init: no property is set (an unset property reads
\* as 0), the inner position is 0.
Init ==
    /\ instance = "unborn"
    /\ log = <<>>
    /\ speed = 0
    /\ start_frame = 0
    /\ end_frame = 0
    /\ limit_enabled = 0
    /\ position = 0
    /\ frame = NoFrame
    /\ last = [op |-> "none"]

Next ==
    \/ \E arg, new_ok, calloc_ok, factory_ok \in BOOLEAN :
           producer_krita_init(arg, new_ok, calloc_ok, factory_ok)
    \/ producer_close
    \/ \E v \in Speeds : set_speed(v)
    \/ \E v \in FrameValues : set_start_frame(v)
    \/ \E v \in FrameValues : set_end_frame(v)
    \/ \E v \in {0, 1} : set_limit_enabled(v)
    \/ \E pos \in Positions, status \in Statuses : producer_seek(pos, status)
    \/ \E retval \in Statuses, f \in InnerFrames, advance \in {0, 1} :
           producer_get_frame(retval, f, advance)
    \/ \E raw \in Buffers, err \in Statuses, other_speed \in Speeds :
           get_audio(raw, err, other_speed)

Spec == Init /\ [][Next]_vars

\* The position side of the component on its own: construction, the range
\* properties, seeks, frame requests and close. The speed property and the
\* audio requests, which never touch the inner position, are left out.
NextPosition ==
    \/ \E arg, new_ok, calloc_ok, factory_ok \in BOOLEAN :
           producer_krita_init(arg, new_ok, calloc_ok, factory_ok)
    \/ producer_close
    \/ \E v \in FrameValues : set_start_frame(v)
    \/ \E v \in FrameValues : set_end_frame(v)
    \/ \E v \in {0, 1} : set_limit_enabled(v)
    \/ \E pos \in Positions, status \in Statuses : producer_seek(pos, status)
    \/ \E retval \in Statuses, f \in InnerFrames, advance \in {0, 1} :
           producer_get_frame(retval, f, advance)

SpecPosition == Init /\ [][NextPosition]_vars

\* The audio side on its own: a live instance whose range properties were
\* set once (restriction on or off, the range valid or not) and are then left
\* alone, with speed changes, seeks, frame requests and audio requests.
InitAudio ==
    /\ instance = "live"
    /\ log = <<"new_producer", "calloc_pdata", "new_inner">>
    /\ speed = 0
    /\ start_frame = 0
    /\ end_frame \in {0, MaxFrame}
    /\ limit_enabled \in {0, 1}
    /\ position = 0
    /\ frame = NoFrame
    /\ last = [op |-> "set"]

NextAudio ==
    \/ \E v \in Speeds : set_speed(v)
    \/ \E pos \in Positions, status \in Statuses : producer_seek(pos, status)
    \/ \E retval \in Statuses, f \in InnerFrames, advance \in {0, 1} :
           producer_get_frame(retval, f, advance)
    \/ \E raw \in Buffers, err \in Statuses, other_speed \in Speeds :
           get_audio(raw, err, other_speed)

SpecAudio == InitAudio /\ [][NextAudio]_vars

\* restrict_range on its own: the arguments are drawn by the initial state,
\* the action applies the function. All values stay far inside the range of
\* a C int.
RestrictArgs ==
    {a \in [index : (-MaxIndex)..MaxIndex, min : (-MaxIndex)..MaxIndex,
            max : (-MaxIndex)..MaxIndex] : a.max > a.min}

InitRestrict ==
    /\ instance = "unborn"
    /\ log = <<>>
    /\ speed = 0
    /\ start_frame = 0
    /\ end_frame = 0
    /\ limit_enabled = 0
    /\ position = 0
    /\ frame = NoFrame
    /\ \E a \in RestrictArgs :
          last = [op |-> "args", index |-> a.index, min |-> a.min,
                  max |-> a.max]

ApplyRestrict ==
    /\ last.op = "args"
    /\ last' = [op |-> "restrict_range", index |-> last.index,
                min |-> last.min, max |-> last.max,
                result |-> restrict_range(last.index, last.min, last.max)]
    /\ UNCHANGED <<instance, log, props, position, frame>>

SpecRestrict == InitRestrict /\ [][ApplyRestrict]_vars

\* Looping playback: a live instance whose range is enabled, valid and never
\* changed, an inner producer that advances by one with every frame, and a
\* consumer that keeps asking for frames.
InitLoop ==
    /\ instance = "live"
    /\ log = <<"new_producer", "calloc_pdata", "new_inner">>
    /\ speed = 0
    /\ start_frame \in FrameValues
    /\ end_frame \in FrameValues
    /\ is_valid_range(start_frame, end_frame)
    /\ limit_enabled = 1
    /\ position \in Positions
    /\ frame = NoFrame
    /\ last = [op |-> "set"]

NextLoop ==
    \E retval \in Statuses, f \in InnerFrames :
        producer_get_frame(retval, f, 1)

SpecLoop == InitLoop /\ [][NextLoop]_vars /\ WF_vars(NextLoop)

\* ------------------------------------------------------------------ claims
Count(lg, event) == Cardinality({i \in 1..Len(lg) : lg[i] = event})

\* The positions of an event in the log.
Places(lg, event) == {i \in 1..Len(lg) : lg[i] = event}

\* The producer handles on an audio stack, bottom first: the order in which
\* their steps were attached.
RECURSIVE HandlesOf(_)
HandlesOf(stack) ==
    IF stack = <<>> THEN <<>>
    ELSE IF stack[1] \in Handles
         THEN <<stack[1]>> \o HandlesOf(Tail(stack))
         ELSE HandlesOf(Tail(stack))

\* The second components of the trace's events of one kind, in order.
RECURSIVE Events(_, _)
Events(trace, kind) ==
    IF trace = <<>> THEN <<>>
    ELSE IF trace[1][1] = kind
         THEN <<trace[1][2]>> \o Events(Tail(trace), kind)
         ELSE Events(Tail(trace), kind)

GateOpen(r) == r.limited /\ r.start >= 0 /\ r.end >= 0 /\ r.end > r.start

\* C1: whenever a frame is requested while limit_enabled is true and
\* 0 <= start_frame < end_frame, the position the inner producer holds when
\* it is asked for the frame lies in [start_frame, end_frame], wherever the
\* position was before the request.
C1_AskedPositionInRange ==
    (last.op = "get_frame" /\ GateOpen(last))
        => (last.asked >= last.start /\ last.asked <= last.end)

\* a request that found the position below the range, after a seek
C1_Witness ==
    /\ last.op = "get_frame"
    /\ GateOpen(last)
    /\ last.pre < last.start
    /\ last.asked = last.start

C3_ClosedGatePassesThrough ==
    (last.op = "get_frame") =>
        /\ (~GateOpen(last)) => (last.asked = last.pre /\ ~last.restricted)
        /\ last.restricted => (last.end > last.start)

\* restriction switched off over a valid range the position lies beyond
C3_Witness ==
    /\ last.op = "get_frame"
    /\ ~last.limited
    /\ last.start >= 0 /\ last.end > last.start
    /\ last.pre > last.end
    /\ last.asked = last.pre

\* C4: producer_get_frame, producer_seek and producer_get_audio each return
\* the status their one call of the inner operation reported.
C4_StatusPropagated ==
    /\ (last.op \in {"get_frame", "seek"})
          => (last.retval = last.inner_retval /\ last.calls = 1)
    /\ (last.op = "get_audio" /\ ~last.test_audio)
          => /\ last.res.error = last.res.uperror
             /\ last.retval = last.err
             /\ Len(Events(last.res.trace, "raw")) = 1

\* a failed seek reported as failed
C4_Witness ==
    /\ last.op = "seek"
    /\ last.inner_retval = 1
    /\ last.retval = 1

\* C5: the buffer the audio step returns is its upstream buffer with the
\* frequency replaced by frequency * |speed| truncated to an integer and the
\* sample groups reversed iff speed < 0; format, channels and samples are
\* unchanged. (speed is held in halves: -2 is -1.0, 4 is 2.0.)
C5_SpeedTransform ==
    (last.op = "get_audio" /\ ~last.test_audio) =>
        LET up == last.res.upaudio
            out == last.res.audio
            sp == last.res.SPEED
            n == Len(up.data)
        IN  /\ out.frequency = (up.frequency * (IF sp < 0 THEN -sp ELSE sp)) \div 2
            /\ Len(out.data) = n
            /\ (sp < 0) => (\A i \in 1..n : out.data[i] = up.data[n + 1 - i])
            /\ (sp >= 0) => (out.data = up.data)
            /\ out.channels = up.channels
            /\ out.format = up.format
            /\ out.samples = up.samples
            /\ (sp = 0) => (out.frequency = 0 /\ out.data = up.data)
            /\ (sp = 4 /\ up.frequency = 48000) => (out.frequency = 96000)
            /\ (sp = -2 /\ up.frequency = 48000 /\ n > 0)
                  => (out.frequency = 48000 /\ out.data[1] = up.data[n])

\* speed -0.5 on an odd frequency: the rate is truncated, the groups reversed
C5_Witness ==
    /\ last.op = "get_audio"
    /\ ~last.test_audio
    /\ last.res.SPEED = -1
    /\ last.res.upaudio.frequency = 7
    /\ last.res.audio.frequency = 3
    /\ Len(last.res.upaudio.data) = 3
    /\ last.res.audio.data = <<3, 2, 1>>

\* C6: the audio step applies the speed the property holds when the audio
\* is requested, not the one it held when the frame was produced.
C6_SpeedReadAtRender ==
    (last.op = "get_audio" /\ ~last.test_audio) =>
        LET up == last.res.upaudio
            out == last.res.audio
        IN  /\ last.res.SPEED = last.speed
            /\ out.frequency = (up.frequency * Abs(last.speed)) \div 2
            /\ out.data = IF last.speed < 0 THEN Reverse(up.data) ELSE up.data

\* the speed was changed between the frame request and the audio request
C6_Witness ==
    /\ last.op = "get_audio"
    /\ ~last.test_audio
    /\ last.changed
    /\ last.speed = -2
    /\ Len(last.res.upaudio.data) > 1

\* C7: a frame gains this producer's handle and callback iff it is not a
\* test-audio frame, one pair per request; the audio of a test-audio frame
\* is returned as the frame holds it, whatever the speed.
C7_AttachIffRealAudio ==
    /\ (frame.state = "pending") =>
          frame.stack = IF frame.test_audio
                        THEN frame.inner
                        ELSE frame.inner \o <<"self", "producer_get_audio">>
    /\ (last.op = "get_audio" /\ last.test_audio) =>
          /\ last.res.audio = last.raw
          /\ Events(last.res.trace, "apply") = <<>>

\* the audio of a test-audio frame requested under a negative speed
C7_Witness ==
    /\ last.op = "get_audio"
    /\ last.test_audio
    /\ last.speed < 0
    /\ Len(last.raw.data) > 1
    /\ last.res.audio = last.raw

\* C8: an inner producer that was created is closed exactly once by the end
\* of the instance's life, before pdata and the producer are released; one
\* that was never created is never closed; a failed construction returns
\* NULL.
C8_InnerReleasedOnce ==
    /\ Count(log, "new_inner") <= 1
    /\ Count(log, "close_inner") <= Count(log, "new_inner")
    /\ (instance \in {"closed", "NULL"})
          => Count(log, "close_inner") = Count(log, "new_inner")
    /\ \A i \in Places(log, "close_inner") :
          \A j \in Places(log, "free_pdata") \cup Places(log, "close_producer")
                     \cup Places(log, "free_producer") : i < j
    /\ (instance = "live") => Count(log, "new_inner") = 1
    /\ (last.op = "init" /\ (~last.arg \/ ~last.factory_ok))
          => (instance = "NULL" /\ Count(log, "close_inner") = 0)

\* a live instance closed
C8_Witness ==
    /\ instance = "closed"
    /\ log = <<"new_producer", "calloc_pdata", "new_inner", "close_inner",
               "free_pdata", "close_producer", "free_producer">>

\* C9: the steps on a frame start in the reverse of the order they were
\* attached in, each gets the audio of the rest of the chain before it
\* applies its transform, and this producer's step takes exactly its own two
\* entries off the chain.
C9_ReverseOrderOfAttachment ==
    (last.op = "get_audio" /\ ~last.test_audio) =>
        LET tr == last.res.trace
            hs == HandlesOf(last.chain)
            k == Len(hs)
        IN  /\ Events(tr, "crash") = <<>>
            /\ Len(tr) = 2 * k + 1
            /\ \A i \in 1..k : tr[i] = <<"enter", hs[k + 1 - i]>>
            /\ tr[k + 1][1] = "raw"
            /\ \A i \in 1..k : tr[k + 1 + i] = <<"apply", hs[i]>>
            /\ hs[k] = "self"
            /\ last.res.upchain = last.inner
            /\ last.res.stack = <<>>

\* two steps on the frame: the inner instance's, then this one's
C9_Witness ==
    /\ last.op = "get_audio"
    /\ HandlesOf(last.chain) = <<"other", "self">>
    /\ last.res.trace = << <<"enter", "self">>, <<"enter", "other">>,
                           <<"raw", "inner_get_audio">>,
                           <<"apply", "other">>, <<"apply", "self">> >>

\* C10: with the range enabled, valid and constant and an inner producer that
\* advances by one per frame, every request is made inside the range, a
\* request at p < end_frame is followed by one at p + 1, one at end_frame by
\* one at start_frame, and every index of the range is requested again and
\* again.
C10_Looping ==
    /\ [](last.op = "get_frame"
             => (last.asked >= start_frame /\ last.asked <= end_frame))
    /\ [][(last.op = "get_frame" /\ last'.op = "get_frame")
             => last'.asked = IF last.asked < end_frame
                              THEN last.asked + 1
                              ELSE start_frame]_vars
    /\ \A i \in FrameValues :
          []<>((i >= start_frame /\ i <= end_frame)
                  => (last.op = "get_frame" /\ last.asked = i))

\* the wrap: a request that found the position one past end_frame
C10_Witness ==
    /\ last.op = "get_frame"
    /\ last.pre = end_frame + 1
    /\ last.asked = start_frame
    /\ end_frame - start_frame > 1
=============================================================================
